---- MODULE Spec2Model ----
(***************************************************************************)
(* A model of the employee scheduler's shift store and of its auto-fill    *)
(* engine (main.py: assign_shift, remove_shift, clear_week_schedule,       *)
(* autofill_schedule, get_roster_state).                                   *)
(*                                                                         *)
(* Dates are day numbers: week_dates[i] of a week starting at S is S + i,  *)
(* and the "%Y-%m-%d" strings the code compares order as their dates do.   *)
(***************************************************************************)
EXTENDS Integers, Sequences, FiniteSets, Bags, TLC

\* ------------------------------------------------------------------ bounds
NumWorkers == 2
NumLocs == 2
MaxPriority == 2
MaxRot == 1
MaxRequests == 3

\* ------------------------------------------------------- program constants
WeekLen == 6
WeekShift == 7
DefaultMaxDays == 5
DefaultStaff == 1
NoLoc == -1

Workers == 1..NumWorkers
Locs == 1..NumLocs
RunIds == {1, 2}
DayIdx == 0..(WeekLen - 1)

VARIABLES
  employees,        \* Employee table: id -> [active, priority]
  locations,        \* Location table: the ids, in select order
  prefs_db,         \* LocationPreference rows, in id order
  targets_db,       \* EmployeeTargetDays rows: employee_id -> [min, max]
  unavailable_db,   \* EmployeeUnavailableDay rows: <<employee_id, day_of_week>>
  bad_locs_db,      \* LocationConstraint rows: <<employee_id, location_id>>
  loc_targets_db,   \* LocationTarget rows: location_id -> [min, max]
  emp_constraints_db,  \* EmployeeConstraint rows: <<employee_id, target_employee_id>>
  coworker_prefs_db,   \* EmployeeCoworkerPreference rows: <<employee_id, target_employee_id>>
  shifts,           \* committed Shift rows: a bag of [employee_id, location_id, date_str]
  runs,             \* one autofill_schedule invocation per run id: its locals and session
  observed,         \* what the last get_roster_state returned for its week
  ghost             \* history: the store before a request, the request's arguments

vars == <<employees, locations, prefs_db, targets_db, unavailable_db,
          bad_locs_db, loc_targets_db, emp_constraints_db, coworker_prefs_db,
          shifts, runs, observed, ghost>>

tables == <<employees, locations, prefs_db, targets_db, unavailable_db,
            bad_locs_db, loc_targets_db, emp_constraints_db, coworker_prefs_db>>

\* ----------------------------------------------------------------- helpers
Range(s) == {s[i] : i \in DOMAIN s}

SeqToBag(s) == [x \in Range(s) |-> Cardinality({i \in DOMAIN s : s[i] = x})]

DictGet(d, k, default) == IF k \in DOMAIN d THEN d[k] ELSE default

DictPut(d, k, v) == [x \in DOMAIN d \cup {k} |-> IF x = k THEN v ELSE d[x]]

Shift(e, l, d) == [employee_id |-> e, location_id |-> l, date_str |-> d]

\* week_dates = [start_date + i for i in range(6)]
week_dates(start_date) == [i \in DayIdx |-> start_date + i]

\* The rows of a bag of Shift rows that satisfy date_str >= lo AND date_str <= hi.
DateRange(store, lo, hi) ==
  LET keep == {s \in DOMAIN store : s.date_str >= lo /\ s.date_str <= hi}
  IN [s \in keep |-> store[s]]

\* The week's DELETE with its upper end at week_dates[-2].
WeekRows_short(store, start_date) ==
  DateRange(store, week_dates(start_date)[0], week_dates(start_date)[WeekLen - 2])

\* delete(Shift).where(date_str >= week_dates[0], date_str <= week_dates[-1])
WeekRows(store, start_date) ==
  DateRange(store, week_dates(start_date)[0], week_dates(start_date)[WeekLen - 1])

\* ------------------------------------------------ autofill: fetch and build
\* select(Employee).where(Employee.active == True), in id order
RECURSIVE AscSeq(_)
AscSeq(S) ==
  IF S = {} THEN <<>>
  ELSE LET m == CHOOSE x \in S : \A y \in S : x <= y
       IN <<m>> \o AscSeq(S \ {m})

ActiveIds == {e \in DOMAIN employees : employees[e].active}

\* for p in prefs_db: pref_map[p.employee_id].append(p.location_id)
pref_map(e) ==
  LET rows == SelectSeq(prefs_db, LAMBDA p : p.employee_id = e)
  IN [i \in 1..Len(rows) |-> rows[i].location_id]

\* emp_targets with the whole week as the default max.
emp_targets_default_week ==
  [e \in ActiveIds \cup DOMAIN targets_db |->
     IF e \in DOMAIN targets_db THEN targets_db[e]
     ELSE [min |-> 0, max |-> WeekLen]]

\* emp_targets = {e.id: {"min": 0, "max": 5}}, overwritten by every targets_db row
emp_targets ==
  [e \in ActiveIds \cup DOMAIN targets_db |->
     IF e \in DOMAIN targets_db THEN targets_db[e]
     ELSE [min |-> 0, max |-> DefaultMaxDays]]

bad_days(e) == {u[2] : u \in {x \in unavailable_db : x[1] = e}}

bad_locs(e) == {b[2] : b \in {x \in bad_locs_db : x[1] = e}}

\* loc_min_max = {l.id: {"min": 1, "max": 1}}, overwritten by every loc_targets_db row
loc_min_max ==
  [l \in Range(locations) \cup DOMAIN loc_targets_db |->
     IF l \in DOMAIN loc_targets_db THEN loc_targets_db[l]
     ELSE [min |-> DefaultStaff, max |-> DefaultStaff]]

\* The dict lookups pref_map[...], bad_days[...], bad_locs[...] of the build raise
\* KeyError for a row whose employee_id is not an active employee.
BuildRaises ==
  \/ \E i \in DOMAIN prefs_db : prefs_db[i].employee_id \notin ActiveIds
  \/ \E u \in unavailable_db : u[1] \notin ActiveIds
  \/ \E b \in bad_locs_db : b[1] \notin ActiveIds

\* emp.priority: the worker's priority tier, a small positive integer, lower first
priority_of(e) == employees[e].priority

\* The employees left in the order of the SELECT.
SortByPriority_unsorted(emps, prio) == emps

\* employees.sort(key=lambda x: x.priority): a stable ascending sort
RECURSIVE SortByPriority(_, _)
SortByPriority(emps, prio) ==
  IF emps = <<>> THEN <<>>
  ELSE LET n == Len(emps)
           head == SortByPriority(SubSeq(emps, 1, n - 1), prio)
           e == emps[n]
           before == SelectSeq(head, LAMBDA x : prio[x] <= prio[e])
           after == SelectSeq(head, LAMBDA x : prio[x] > prio[e])
       IN before \o <<e>> \o after

\* ----------------------------------------------------- autofill: run state
EmptyDict == [x \in {} |-> 0]

IdleRun ==
  [pc |-> "idle", mode |-> "none", week_start |-> 0,
   deleted |-> EmptyBag, added |-> <<>>,
   emps |-> <<>>, priority |-> EmptyDict, locs |-> <<>>,
   pref_map |-> EmptyDict, emp_targets |-> EmptyDict, bad_days |-> EmptyDict,
   bad_locs |-> EmptyDict, loc_min_max |-> EmptyDict,
   emp_days_assigned |-> EmptyDict, loc_day_counts |-> EmptyDict,
   emp_working_today |-> {},
   day_indices |-> <<>>, ei |-> 0, di |-> 0,
   shuffled_locs |-> <<>>, li |-> 0, current |-> 0,
   needy_employees |-> <<>>, needed |-> 0]

\* is_available without the emp_working_today check.
is_available_no_working_check(r, emp_id, date_str, day_idx, loc_id) ==
  /\ ~(r.emp_days_assigned[emp_id] >= r.emp_targets[emp_id].max)
  /\ day_idx \notin r.bad_days[emp_id]
  /\ loc_id \notin r.bad_locs[emp_id]

\* is_available with the target-days test off by one (> for >=).
is_available_off_by_one(r, emp_id, date_str, day_idx, loc_id) ==
  /\ ~(r.emp_days_assigned[emp_id] > r.emp_targets[emp_id].max)
  /\ day_idx \notin r.bad_days[emp_id]
  /\ loc_id \notin r.bad_locs[emp_id]
  /\ <<emp_id, date_str>> \notin r.emp_working_today

\* def is_available(emp_id, date_str, day_idx, loc_id)
is_available(r, emp_id, date_str, day_idx, loc_id) ==
  /\ ~(r.emp_days_assigned[emp_id] >= r.emp_targets[emp_id].max)
  /\ day_idx \notin r.bad_days[emp_id]
  /\ loc_id \notin r.bad_locs[emp_id]
  /\ <<emp_id, date_str>> \notin r.emp_working_today

\* assign keeping one row per (location, date): a row already emitted for the
\* slot is replaced by the new one.
assign_overwrites_slot(r, emp_id, loc_id, date_str) ==
  [r EXCEPT
     !.added = Append(SelectSeq(@, LAMBDA s : ~(s.location_id = loc_id
                                                /\ s.date_str = date_str)),
                      Shift(emp_id, loc_id, date_str)),
     !.emp_days_assigned[emp_id] = @ + 1,
     !.loc_day_counts = DictPut(@, <<loc_id, date_str>>,
                                DictGet(@, <<loc_id, date_str>>, 0) + 1),
     !.emp_working_today = @ \cup {<<emp_id, date_str>>}]

\* assign without "emp_days_assigned[emp_id] += 1".
assign_skips_day_count(r, emp_id, loc_id, date_str) ==
  [r EXCEPT
     !.added = Append(@, Shift(emp_id, loc_id, date_str)),
     !.loc_day_counts = DictPut(@, <<loc_id, date_str>>,
                                DictGet(@, <<loc_id, date_str>>, 0) + 1),
     !.emp_working_today = @ \cup {<<emp_id, date_str>>}]

\* def assign(emp_id, loc_id, date_str)
assign(r, emp_id, loc_id, date_str) ==
  [r EXCEPT
     !.added = Append(@, Shift(emp_id, loc_id, date_str)),
     !.emp_days_assigned[emp_id] = @ + 1,
     !.loc_day_counts = DictPut(@, <<loc_id, date_str>>,
                                DictGet(@, <<loc_id, date_str>>, 0) + 1),
     !.emp_working_today = @ \cup {<<emp_id, date_str>>}]

\* loc_day_counts.get(f"{loc_id}_{date_str}", 0)
staff_count(r, loc_id, date_str) == DictGet(r.loc_day_counts, <<loc_id, date_str>>, 0)

MinOf(S) == CHOOSE x \in S : \A y \in S : x <= y

\* The locals of a smart-mode run after the fetch, the build, the priority sort and
\* random.shuffle(day_indices), with the week's DELETE pending in the session.
SmartStart(r, start_date, perm) ==
  [r EXCEPT
     !.pc = "phase1", !.mode = "smart", !.week_start = start_date,
     !.deleted = WeekRows(shifts, start_date), !.added = <<>>,
     !.emps = SortByPriority(AscSeq(ActiveIds),
                             [e \in ActiveIds |-> priority_of(e)]),
     !.priority = [e \in ActiveIds |-> priority_of(e)],
     !.locs = locations,
     !.pref_map = [e \in ActiveIds |-> pref_map(e)],
     !.emp_targets = emp_targets,
     !.bad_days = [e \in ActiveIds |-> bad_days(e)],
     !.bad_locs = [e \in ActiveIds |-> bad_locs(e)],
     !.loc_min_max = loc_min_max,
     !.emp_days_assigned = [e \in ActiveIds |-> 0],
     !.loc_day_counts = EmptyDict,
     !.emp_working_today = {},
     !.day_indices = perm, !.ei = 1, !.di = 1,
     !.shuffled_locs = <<>>, !.li = 0, !.current = 0,
     !.needy_employees = <<>>, !.needed = 0]

\* Phase 1 without the "current_staff < max_allowed" test.
Phase1Step_no_capacity(r) ==
  IF r.ei > Len(r.emps) THEN [r EXCEPT !.pc = "phase2", !.di = 1, !.li = 0]
  ELSE
    LET emp == r.emps[r.ei]
        prefs == r.pref_map[emp]
        days_wanted == r.emp_targets[emp].max
    IN IF prefs = <<>> \/ r.di > WeekLen \/ r.emp_days_assigned[emp] >= days_wanted
       THEN [r EXCEPT !.ei = @ + 1, !.di = 1]
       ELSE
         LET i == r.day_indices[r.di]
             date_str == week_dates(r.week_start)[i]
             ok == {j \in DOMAIN prefs : is_available(r, emp, date_str, i, prefs[j])}
         IN IF ok = {} THEN [r EXCEPT !.di = @ + 1]
            ELSE [assign(r, emp, prefs[MinOf(ok)], date_str) EXCEPT !.di = @ + 1]

\* Phase 1 trying only the first preferred location of the worker on each day.
Phase1Step_first_pref_only(r) ==
  IF r.ei > Len(r.emps) THEN [r EXCEPT !.pc = "phase2", !.di = 1, !.li = 0]
  ELSE
    LET emp == r.emps[r.ei]
        prefs == r.pref_map[emp]
        days_wanted == r.emp_targets[emp].max
    IN IF prefs = <<>> \/ r.di > WeekLen \/ r.emp_days_assigned[emp] >= days_wanted
       THEN [r EXCEPT !.ei = @ + 1, !.di = 1]
       ELSE
         LET i == r.day_indices[r.di]
             date_str == week_dates(r.week_start)[i]
             ok == {j \in {1} :
                      /\ staff_count(r, prefs[j], date_str) < r.loc_min_max[prefs[j]].max
                      /\ is_available(r, emp, date_str, i, prefs[j])}
         IN IF ok = {} THEN [r EXCEPT !.di = @ + 1]
            ELSE [assign(r, emp, prefs[MinOf(ok)], date_str) EXCEPT !.di = @ + 1]

\* --- PHASE 1: one iteration of "for i in day_indices" for employee emps[ei]
\* (or the continue / break / loop end that moves to the next employee).
Phase1Step(r) ==
  IF r.ei > Len(r.emps) THEN [r EXCEPT !.pc = "phase2", !.di = 1, !.li = 0]
  ELSE
    LET emp == r.emps[r.ei]
        prefs == r.pref_map[emp]
        days_wanted == r.emp_targets[emp].max
    IN IF prefs = <<>> \/ r.di > WeekLen \/ r.emp_days_assigned[emp] >= days_wanted
       THEN [r EXCEPT !.ei = @ + 1, !.di = 1]
       ELSE
         LET i == r.day_indices[r.di]
             date_str == week_dates(r.week_start)[i]
             missing == {j \in DOMAIN prefs : prefs[j] \notin DOMAIN r.loc_min_max}
             ok == {j \in DOMAIN prefs \ missing :
                      /\ staff_count(r, prefs[j], date_str) < r.loc_min_max[prefs[j]].max
                      /\ is_available(r, emp, date_str, i, prefs[j])}
         IN IF missing # {} /\ (ok = {} \/ MinOf(missing) < MinOf(ok))
            THEN [r EXCEPT !.pc = "failed"]
            ELSE IF ok = {} THEN [r EXCEPT !.di = @ + 1]
            ELSE [assign(r, emp, prefs[MinOf(ok)], date_str) EXCEPT !.di = @ + 1]

\* Phase 3 entered with needed = 1 for the first needy employee, whatever the min.
EnterPhase3_needed_one(r) ==
  LET needy == SortByPriority(
                 SelectSeq(r.emps,
                           LAMBDA e : r.emp_days_assigned[e] < r.emp_targets[e].min),
                 r.priority)
  IN [r EXCEPT
        !.pc = "phase3", !.needy_employees = needy, !.ei = 1, !.di = 1, !.li = 0,
        !.needed = IF needy = <<>> THEN 0 ELSE 1]

\* needy_employees = [e for e in employees if emp_days_assigned < min], sorted again
EnterPhase3(r) ==
  LET needy == SortByPriority(
                 SelectSeq(r.emps,
                           LAMBDA e : r.emp_days_assigned[e] < r.emp_targets[e].min),
                 r.priority)
  IN [r EXCEPT
        !.pc = "phase3", !.needy_employees = needy, !.ei = 1, !.di = 1, !.li = 0,
        !.needed = IF needy = <<>> THEN 0
                   ELSE r.emp_targets[needy[1]].min - r.emp_days_assigned[needy[1]]]

\* The end of "for loc in shuffled_locs": the next day, or Phase 3 after the last.
NextDay(r) ==
  IF r.di + 1 > WeekLen THEN EnterPhase3(r)
  ELSE [r EXCEPT !.di = @ + 1, !.li = 0]

\* "for loc in shuffled_locs" reaches position li: current = loc_day_counts.get(...)
EnterSlot(r, li) ==
  IF li > Len(r.shuffled_locs) THEN NextDay(r)
  ELSE [r EXCEPT
          !.li = li,
          !.current = staff_count(r, r.shuffled_locs[li],
                                  week_dates(r.week_start)[r.day_indices[r.di]])]

\* random.shuffle(shuffled_locs) at the start of a Phase 2 day
ShuffleLocs(r, order) == EnterSlot([r EXCEPT !.shuffled_locs = order], 1)

\* The Phase 2 score with a priority weight of 10 for 100.
score_small_priority_weight(r, emp, loc_id) ==
  (5 - r.priority[emp]) * 10
  + (IF loc_id \in Range(r.pref_map[emp]) THEN 50 ELSE 0)
  + (IF r.emp_days_assigned[emp] < r.emp_targets[emp].min THEN 20 ELSE 0)

\* The integer part of a Phase 2 score; random.random() < 1 is added to it.
score(r, emp, loc_id) ==
  (5 - r.priority[emp]) * 100
  + (IF loc_id \in Range(r.pref_map[emp]) THEN 50 ELSE 0)
  + (IF r.emp_days_assigned[emp] < r.emp_targets[emp].min THEN 20 ELSE 0)

candidates(r) ==
  LET i == r.day_indices[r.di]
  IN {e \in Range(r.emps) :
        is_available(r, e, week_dates(r.week_start)[i], i, r.shuffled_locs[r.li])}

\* candidates.sort(reverse=True)[0]: a candidate whose integer score is the largest;
\* which of them is decided by the random term.
best_emps(r) ==
  LET loc_id == r.shuffled_locs[r.li]
  IN {e \in candidates(r) :
        \A o \in candidates(r) : score(r, o, loc_id) <= score(r, e, loc_id)}

\* The Phase 2 while loop as an "if": at most one assignment per slot.
Phase2Assigns_single(r) ==
  /\ r.current < r.loc_min_max[r.shuffled_locs[r.li]].min
  /\ r.current < 1
  /\ candidates(r) # {}

\* Whether the Phase 2 while loop assigns at the current slot.
Phase2Assigns(r) ==
  /\ r.current < r.loc_min_max[r.shuffled_locs[r.li]].min
  /\ candidates(r) # {}

\* Phase 2 going through the day's locations again for as long as the last one
\* is left below its min.
Phase2Step_retry_until_staffed(r, best_emp) ==
  IF Phase2Assigns(r)
  THEN [assign(r, best_emp, r.shuffled_locs[r.li],
               week_dates(r.week_start)[r.day_indices[r.di]])
          EXCEPT !.current = @ + 1]
  ELSE IF r.li = Len(r.shuffled_locs) /\ r.li > 1
          /\ r.current < r.loc_min_max[r.shuffled_locs[r.li]].min
       THEN EnterSlot(r, 1)
       ELSE EnterSlot(r, r.li + 1)

\* --- PHASE 2: one evaluation of "while current < min_req" at slot (di, li).
Phase2Step(r, best_emp) ==
  IF Phase2Assigns(r)
  THEN [assign(r, best_emp, r.shuffled_locs[r.li],
               week_dates(r.week_start)[r.day_indices[r.di]])
          EXCEPT !.current = @ + 1]
  ELSE EnterSlot(r, r.li + 1)

\* shops_with_space relying on is_available(..., -1) alone for the forbidden shops.
shops_with_space_any(r, emp, date_str) ==
  {j \in DOMAIN r.locs :
     staff_count(r, r.locs[j], date_str) < r.loc_min_max[r.locs[j]].max}

\* Phase 3 looking at the first location only.
shops_with_space_first_only(r, emp, date_str) ==
  {j \in DOMAIN r.locs \cap {1} :
     /\ staff_count(r, r.locs[j], date_str) < r.loc_min_max[r.locs[j]].max
     /\ r.locs[j] \notin r.bad_locs[emp]}

\* Phase 3's "for loc in locations": the positions of the shops with space that
\* are not in bad_locs[emp.id]; the first of them is taken.
shops_with_space(r, emp, date_str) ==
  {j \in DOMAIN r.locs :
     /\ staff_count(r, r.locs[j], date_str) < r.loc_min_max[r.locs[j]].max
     /\ r.locs[j] \notin r.bad_locs[emp]}

\* --- PHASE 3: one iteration of "for i in day_indices" for needy_employees[ei]
\* (or the break / loop end that moves to the next needy employee).
Phase3Step(r) ==
  IF r.ei > Len(r.needy_employees) THEN [r EXCEPT !.pc = "commit"]
  ELSE
    LET emp == r.needy_employees[r.ei] IN
    IF r.di > WeekLen \/ r.needed <= 0
    THEN LET n == r.ei + 1
         IN [r EXCEPT
               !.ei = n, !.di = 1,
               !.needed = IF n > Len(r.needy_employees) THEN 0
                          ELSE r.emp_targets[r.needy_employees[n]].min
                               - r.emp_days_assigned[r.needy_employees[n]]]
    ELSE
      LET i == r.day_indices[r.di]
          date_str == week_dates(r.week_start)[i]
          ok == shops_with_space(r, emp, date_str)
      IN IF is_available(r, emp, date_str, i, NoLoc) /\ ok # {}
         THEN [assign(r, emp, r.locs[MinOf(ok)], date_str)
                 EXCEPT !.needed = @ - 1, !.di = @ + 1]
         ELSE [r EXCEPT !.di = @ + 1]

\* ------------------------------------------------------------ the session
\* A commit that inserts the added rows and leaves the pending DELETE out.
Committed_add_only(store, r) == store (+) SeqToBag(r.added)

\* session.commit(): the pending DELETE and the added Shift rows reach the store.
Committed(store, r) == (store (-) r.deleted) (+) SeqToBag(r.added)

\* The roster counters kept at module level: a step of run k also writes them into
\* every other run that is in one of the phases.
ApplyStep_shared_counters(k, r2) ==
  [j \in RunIds |->
     IF j = k THEN r2
     ELSE IF runs[j].pc \in {"phase1", "phase2", "phase3"}
               /\ r2.pc \in {"phase1", "phase2", "phase3"}
          THEN [runs[j] EXCEPT !.emp_days_assigned = r2.emp_days_assigned,
                               !.loc_day_counts = r2.loc_day_counts,
                               !.emp_working_today = r2.emp_working_today]
          ELSE runs[j]]

\* Each invocation owns its locals: a step of run k replaces run k's record only.
ApplyStep(k, r2) == [runs EXCEPT ![k] = r2]

Busy(k) == runs[k].pc \in {"phase1", "phase2", "phase3", "commit"}

\* --------------------------------------------------------- input families
Rot(n) == [i \in 1..WeekLen |-> (i - 1 + n) % WeekLen]

\* The outcomes of random.shuffle(day_indices) the model explores.
DayOrders == {Rot(n) : n \in 0..MaxRot}

\* The outcomes of random.shuffle(shuffled_locs): every order of the locations.
Orders(s) ==
  {o \in [1..Len(s) -> Range(s)] : \A i, j \in 1..Len(s) : o[i] = o[j] => i = j}

PrefRow(e, l) == [employee_id |-> e, location_id |-> l]

TargetChoices == {[min |-> 2, max |-> 1], [min |-> 1, max |-> 2], [min |-> 0, max |-> -1]}

StaffChoices == {[min |-> 0, max |-> 1], [min |-> 2, max |-> 1]}

PartialFns(D, V) == UNION {[X -> V] : X \in SUBSET D}

AllActive == [Workers -> [active : {TRUE}, priority : 1..MaxPriority]]

\* The random outcomes of one run, fixed in advance: the shuffle of the locations
\* for each Phase 2 day and the order the random term gives to equal scores.
NoTape == [orders |-> <<>>, rank |-> <<>>]

Tapes ==
  LET os == Orders(AscSeq(Locs))
      up == CHOOSE o \in os : \A i \in 1..(NumLocs - 1) : o[i] < o[i + 1]
      down == CHOOSE o \in os : \A i \in 1..(NumLocs - 1) : o[i] > o[i + 1]
  IN {[orders |-> [d \in 1..WeekLen |-> IF d % 2 = n THEN up ELSE down],
       rank |-> rk] : n \in 0..2, rk \in Orders(AscSeq(Workers))}

\* ------------------------------------------------------------------- Init
Week0 == WeekShift

\* No worker is barred from or paired with a coworker; autofill_schedule reads
\* neither table.
NoCoworkerRows ==
  /\ emp_constraints_db = {}
  /\ coworker_prefs_db = {}

NoRequests ==
  /\ shifts = EmptyBag
  /\ runs = [k \in RunIds |-> IdleRun]
  /\ observed = [week |-> 0, rows |-> EmptyBag, at |-> 0]
  /\ ghost = [before |-> [k \in RunIds |-> EmptyBag],
              last |-> [op |-> "none", e |-> 0, l |-> 0, d |-> 0, before |-> EmptyBag],
              tables0 |-> tables, nreq |-> 0,
              start |-> [k \in RunIds |-> IdleRun],
              tape |-> [k \in RunIds |-> NoTape]]

Init ==
  /\ employees \in AllActive
  /\ locations = AscSeq(Locs)
  /\ prefs_db \in {<<>>, <<PrefRow(1, 2), PrefRow(1, 1)>>, <<PrefRow(2, 1)>>,
                   <<PrefRow(1, 2), PrefRow(2, 1), PrefRow(1, 1)>>}
  /\ targets_db \in PartialFns(Workers, TargetChoices)
  /\ unavailable_db \in SUBSET {<<1, 0>>}
  /\ bad_locs_db \in SUBSET {<<1, 1>>}
  /\ loc_targets_db \in PartialFns(Locs, StaffChoices)
  /\ NoCoworkerRows
  /\ NoRequests

\* ---------------------------------------------------------------- actions
\* History only: the store as request k found it, and the request counted.
Requested(k, op) ==
  [ghost EXCEPT !.before[k] = shifts, !.nreq = @ + 1, !.tables0 = tables,
                !.last = [op |-> op, e |-> 0, l |-> 0, d |-> 0, before |-> shifts]]

\* autofill_schedule(mode = 'smart') up to the start of Phase 1; a KeyError of the
\* build leaves the with-block, and the session is closed without a commit.
StartSmart(k, start_date) ==
  /\ runs[k].pc = "idle"
  /\ \E perm \in DayOrders :
       runs' = ApplyStep(k, IF BuildRaises
                            THEN [runs[k] EXCEPT !.pc = "failed", !.mode = "smart",
                                                 !.week_start = start_date]
                            ELSE SmartStart(runs[k], start_date, perm))
  /\ ghost' = Requested(k, "autofill")
  /\ UNCHANGED <<tables, shifts, observed>>

Phase1(k) ==
  /\ runs[k].pc = "phase1"
  /\ runs' = ApplyStep(k, Phase1Step(runs[k]))
  /\ UNCHANGED <<tables, shifts, observed, ghost>>

Phase2Shuffle(k) ==
  /\ runs[k].pc = "phase2" /\ runs[k].li = 0
  /\ \E order \in Orders(runs[k].locs) :
       runs' = ApplyStep(k, ShuffleLocs(runs[k], order))
  /\ UNCHANGED <<tables, shifts, observed, ghost>>

Phase2(k) ==
  /\ runs[k].pc = "phase2" /\ runs[k].li >= 1
  /\ \E best_emp \in (IF Phase2Assigns(runs[k]) THEN best_emps(runs[k]) ELSE {0}) :
       runs' = ApplyStep(k, Phase2Step(runs[k], best_emp))
  /\ UNCHANGED <<tables, shifts, observed, ghost>>

Phase3(k) ==
  /\ runs[k].pc = "phase3"
  /\ runs' = ApplyStep(k, Phase3Step(runs[k]))
  /\ UNCHANGED <<tables, shifts, observed, ghost>>

Commit(k) ==
  /\ runs[k].pc = "commit"
  /\ shifts' = Committed(shifts, runs[k])
  /\ runs' = ApplyStep(k, [runs[k] EXCEPT !.pc = "done"])
  /\ UNCHANGED <<tables, observed, ghost>>

\* One smart-mode request.
Next ==
  \/ StartSmart(1, Week0)
  \/ Phase1(1)
  \/ Phase2Shuffle(1)
  \/ Phase2(1)
  \/ Phase3(1)
  \/ Commit(1)

Spec == Init /\ [][Next]_vars

\* ------------------------------------------- the other requests on Shift
\* The rows of a bag, in the order the SELECT returns them.
RECURSIVE BagToSeq(_)
BagToSeq(B) ==
  IF DOMAIN B = {} THEN <<>>
  ELSE LET x == CHOOSE y \in DOMAIN B :
                  \A z \in DOMAIN B : y.date_str <= z.date_str
       IN <<x>> \o BagToSeq(B (-) SetToBag({x}))

\* select(Shift).where(employee_id == e, date_str == d).first(): a row or None
first_existing(store, e, d) ==
  LET rows == {s \in DOMAIN store : s.employee_id = e /\ s.date_str = d}
  IN IF rows = {} THEN {EmptyBag} ELSE {SetToBag({x}) : x \in rows}

\* assign_shift without "if existing: session.delete(existing)".
assign_shift_no_delete(store, existing, e, l, d) ==
  store (+) SetToBag({Shift(e, l, d)})

\* assign_shift: delete the row .first() found, add the new one, commit
assign_shift(store, existing, e, l, d) ==
  (store (-) existing) (+) SetToBag({Shift(e, l, d)})

\* remove_shift: delete(Shift).where(employee_id == e, date_str == d)
remove_shift(store, e, d) ==
  LET keep == {s \in DOMAIN store : ~(s.employee_id = e /\ s.date_str = d)}
  IN [s \in keep |-> store[s]]

\* clear_week_schedule: delete the week's rows
clear_week_schedule(store, start_date) == store (-) WeekRows(store, start_date)

\* copy mode that skips a row whose worker is barred from the row's location.
copy_shifts_checked(store, start_date) ==
  LET old == BagToSeq(DateRange(store, start_date - WeekShift, start_date - 2))
      fits == SelectSeq(old, LAMBDA o :
                 /\ 0 <= o.date_str - (start_date - WeekShift)
                 /\ o.date_str - (start_date - WeekShift) < WeekLen
                 /\ o.location_id \notin bad_locs(o.employee_id))
  IN [n \in DOMAIN fits |->
        Shift(fits[n].employee_id, fits[n].location_id,
              week_dates(start_date)[fits[n].date_str - (start_date - WeekShift)])]

\* copy mode: old_shifts are the rows from prev_start = start - 7 to prev_end =
\* start - 2; each with 0 <= day_diff < 6 is added again at week_dates[day_diff]
copy_shifts(store, start_date) ==
  LET old == BagToSeq(DateRange(store, start_date - WeekShift, start_date - 2))
      fits == SelectSeq(old, LAMBDA o :
                 /\ 0 <= o.date_str - (start_date - WeekShift)
                 /\ o.date_str - (start_date - WeekShift) < WeekLen)
  IN [n \in DOMAIN fits |->
        Shift(fits[n].employee_id, fits[n].location_id,
              week_dates(start_date)[fits[n].date_str - (start_date - WeekShift)])]

\* autofill_schedule(mode = 'copy') up to session.commit(): the SELECT of the
\* previous week runs in the session, after its DELETE
CopyStart(r, start_date) ==
  [r EXCEPT
     !.pc = "commit", !.mode = "copy", !.week_start = start_date,
     !.deleted = WeekRows(shifts, start_date),
     !.added = copy_shifts(shifts (-) WeekRows(shifts, start_date), start_date)]

\* A mode that is neither 'copy' nor 'smart', run as if it were 'copy'.
OtherStart_as_copy(r, start_date) ==
  [CopyStart(r, start_date) EXCEPT !.mode = "other"]

\* autofill_schedule with any other mode: the DELETE, then session.commit()
OtherStart(r, start_date) ==
  [r EXCEPT
     !.pc = "commit", !.mode = "other", !.week_start = start_date,
     !.deleted = WeekRows(shifts, start_date), !.added = <<>>]

StartCopy(k, start_date) ==
  /\ runs[k].pc = "idle"
  /\ runs' = ApplyStep(k, CopyStart(runs[k], start_date))
  /\ ghost' = Requested(k, "autofill")
  /\ UNCHANGED <<tables, shifts, observed>>

StartOther(k, start_date) ==
  /\ runs[k].pc = "idle"
  /\ runs' = ApplyStep(k, OtherStart(runs[k], start_date))
  /\ ghost' = Requested(k, "autofill")
  /\ UNCHANGED <<tables, shifts, observed>>

\* return {"status": "ok"}, or the error response of a failed run
Return(k) ==
  /\ runs[k].pc \in {"done", "failed"}
  /\ runs' = ApplyStep(k, IdleRun)
  /\ UNCHANGED <<tables, shifts, observed, ghost>>

AssignShift(e, l, d) ==
  /\ \E existing \in first_existing(shifts, e, d) :
       shifts' = assign_shift(shifts, existing, e, l, d)
  /\ ghost' = [ghost EXCEPT !.nreq = @ + 1,
                 !.last = [op |-> "assign", e |-> e, l |-> l, d |-> d,
                           before |-> shifts]]
  /\ UNCHANGED <<tables, runs, observed>>

RemoveShift(e, d) ==
  /\ shifts' = remove_shift(shifts, e, d)
  /\ ghost' = [ghost EXCEPT !.nreq = @ + 1,
                 !.last = [op |-> "remove", e |-> e, l |-> 0, d |-> d,
                           before |-> shifts]]
  /\ UNCHANGED <<tables, runs, observed>>

ClearWeek(start_date) ==
  /\ shifts' = clear_week_schedule(shifts, start_date)
  /\ ghost' = [ghost EXCEPT !.nreq = @ + 1,
                 !.last = [op |-> "clear", e |-> 0, l |-> 0, d |-> start_date,
                           before |-> shifts]]
  /\ UNCHANGED <<tables, runs, observed>>

\* ------------------------------------- requests executed one after another
\* The dates the manual requests use: the ends of the weeks and their neighbours.
ManualDates ==
  {0, WeekShift - 2, WeekShift - 1, WeekShift, WeekShift + WeekLen - 1,
   WeekShift + WeekLen}

StoreWeeks == {Week0, Week0 + WeekShift}

InitStore ==
  /\ employees = [e \in Workers |-> [active |-> TRUE,
                                     priority |-> IF e <= MaxPriority THEN e
                                                  ELSE MaxPriority]]
  /\ locations = AscSeq(Locs)
  /\ prefs_db = <<PrefRow(1, 2)>>
  /\ targets_db = [e \in {1, 2} |-> IF e = 1 THEN [min |-> 1, max |-> 2]
                                    ELSE [min |-> 2, max |-> 1]]
  /\ unavailable_db = {<<1, 0>>}
  /\ bad_locs_db = {<<1, 1>>}
  /\ loc_targets_db = [l \in {2} |-> [min |-> 0, max |-> 1]]
  /\ NoCoworkerRows
  /\ NoRequests

\* A new request is served when the previous one has returned.
Quiet == \A k \in RunIds : runs[k].pc = "idle"

MayRequest == Quiet /\ ghost.nreq < MaxRequests

NextStore ==
  \/ MayRequest /\ \E e \in Workers, l \in Locs, d \in ManualDates : AssignShift(e, l, d)
  \/ MayRequest /\ \E e \in Workers, d \in ManualDates : RemoveShift(e, d)
  \/ MayRequest /\ \E w \in StoreWeeks : ClearWeek(w)
  \/ MayRequest /\ \E w \in StoreWeeks : StartSmart(1, w)
  \/ MayRequest /\ \E w \in StoreWeeks : StartCopy(1, w)
  \/ MayRequest /\ \E w \in StoreWeeks : StartOther(1, w)
  \/ Phase1(1)
  \/ Phase2Shuffle(1)
  \/ Phase2(1)
  \/ Phase3(1)
  \/ Commit(1)
  \/ Return(1)

SpecStore == InitStore /\ [][NextStore]_vars

\* ------------------------------------------ a reader beside one autofill
\* get_roster_state through the session of the running autofill_schedule.
roster_shifts_shared_session(store, start_date) ==
  DateRange(Committed(store, runs[1]),
            week_dates(start_date)[0], week_dates(start_date)[WeekLen - 1])

\* get_roster_state (admin, or a published week): select(Shift) of the week's
\* date range in a session of its own, which sees committed rows only
roster_shifts(store, start_date) ==
  DateRange(store, week_dates(start_date)[0], week_dates(start_date)[WeekLen - 1])

GetRosterState(start_date) ==
  /\ observed' = [week |-> start_date, rows |-> roster_shifts(shifts, start_date),
                  at |-> ghost.nreq]
  /\ UNCHANGED <<tables, shifts, runs, ghost>>

\* As InitStore, or with worker 2 deactivated while a LocationConstraint row of
\* theirs is still stored (a state import_data can load).
InitConc ==
  /\ employees \in {[e \in Workers |-> [active |-> a \/ e # 2,
                                        priority |-> IF e <= MaxPriority THEN e
                                                     ELSE MaxPriority]]
                    : a \in BOOLEAN}
  /\ locations = AscSeq(Locs)
  /\ prefs_db = <<PrefRow(1, 2)>>
  /\ targets_db = [e \in {1, 2} |-> IF e = 1 THEN [min |-> 1, max |-> 2]
                                    ELSE [min |-> 2, max |-> 1]]
  /\ unavailable_db = {<<1, 0>>}
  /\ bad_locs_db = {<<1, 1>>, <<2, 2>>}
  /\ loc_targets_db = [l \in {2} |-> [min |-> 0, max |-> 1]]
  /\ NoCoworkerRows
  /\ NoRequests

ConcDates == {0, Week0, Week0 + WeekLen - 1}

NextConc ==
  \/ MayRequest /\ \E e \in Workers, l \in Locs, d \in ConcDates : AssignShift(e, l, d)
  \/ MayRequest /\ StartSmart(1, Week0)
  \/ MayRequest /\ StartCopy(1, Week0)
  \/ MayRequest /\ StartOther(1, Week0)
  \/ Phase1(1)
  \/ Phase2Shuffle(1)
  \/ Phase2(1)
  \/ Phase3(1)
  \/ Commit(1)
  \/ GetRosterState(Week0)

SpecConc == InitConc /\ [][NextConc]_vars

\* ------------------------------------------- two smart runs side by side
\* The worker the sort puts first among equal integer scores.
TapePick(r, tape) ==
  IF Phase2Assigns(r)
  THEN tape.rank[MinOf({n \in DOMAIN tape.rank : tape.rank[n] \in best_emps(r)})]
  ELSE 0

\* One smart-mode run executed alone to its commit, with the random outcomes tape.
RECURSIVE RunToEnd(_, _)
RunToEnd(r, tape) ==
  CASE r.pc = "phase1" -> RunToEnd(Phase1Step(r), tape)
    [] r.pc = "phase2" /\ r.li = 0 ->
         RunToEnd(ShuffleLocs(r, tape.orders[r.di]), tape)
    [] r.pc = "phase2" /\ r.li >= 1 ->
         RunToEnd(Phase2Step(r, TapePick(r, tape)), tape)
    [] r.pc = "phase3" -> RunToEnd(Phase3Step(r), tape)
    [] OTHER -> r

StartSmartTape(k, start_date) ==
  /\ runs[k].pc = "idle"
  /\ ~BuildRaises
  /\ \E perm \in DayOrders, tape \in Tapes :
       /\ runs' = ApplyStep(k, SmartStart(runs[k], start_date, perm))
       /\ ghost' = [Requested(k, "autofill") EXCEPT
                      !.start[k] = SmartStart(runs[k], start_date, perm),
                      !.tape[k] = tape]
  /\ UNCHANGED <<tables, shifts, observed>>

Phase2ShuffleTape(k) ==
  /\ runs[k].pc = "phase2" /\ runs[k].li = 0
  /\ runs' = ApplyStep(k, ShuffleLocs(runs[k], ghost.tape[k].orders[runs[k].di]))
  /\ UNCHANGED <<tables, shifts, observed, ghost>>

Phase2Tape(k) ==
  /\ runs[k].pc = "phase2" /\ runs[k].li >= 1
  /\ runs' = ApplyStep(k, Phase2Step(runs[k], TapePick(runs[k], ghost.tape[k])))
  /\ UNCHANGED <<tables, shifts, observed, ghost>>

InitPar ==
  /\ employees \in [Workers -> [active : {TRUE}, priority : {1}]]
  /\ locations = AscSeq(Locs)
  /\ prefs_db \in {<<>>, <<PrefRow(1, 2)>>}
  /\ targets_db = [e \in {1, 2} |-> IF e = 1 THEN [min |-> 1, max |-> 3]
                                    ELSE [min |-> 5, max |-> 5]]
  /\ unavailable_db = {<<1, 0>>}
  /\ bad_locs_db = {}
  /\ loc_targets_db = [l \in {2} |-> [min |-> 0, max |-> 1]]
  /\ NoCoworkerRows
  /\ NoRequests

\* Run k fills week k (a different week each); the runs' steps interleave freely.
NextPar ==
  \E k \in RunIds :
    \/ StartSmartTape(k, Week0 * k)
    \/ Phase1(k)
    \/ Phase2ShuffleTape(k)
    \/ Phase2Tape(k)
    \/ Phase3(k)
    \/ Commit(k)

SpecPar == InitPar /\ [][NextPar]_vars

\* ------------------------------------------------- claims on a smart run
Run == runs[1]

RunDate(i) == week_dates(Run.week_start)[i]

RowsOf(added, e) == {i \in DOMAIN added : added[i].employee_id = e}

Max0(n) == IF n > 0 THEN n ELSE 0

\* C1: the assignments emitted by a smart-mode run never hold two rows with the
\* same worker and the same date.
C1_NoDoubleBooking ==
  \A i, j \in DOMAIN Run.added :
    (/\ Run.added[i].employee_id = Run.added[j].employee_id
     /\ Run.added[i].date_str = Run.added[j].date_str) => i = j

\* C1 witness: Phase 2 is filling a slot that still lacks staff, and a worker who
\* is otherwise eligible for it is already working that date.
C1_Witness ==
  /\ Run.pc = "phase2" /\ Run.li >= 1
  /\ Run.current < Run.loc_min_max[Run.shuffled_locs[Run.li]].min
  /\ \E e \in Range(Run.emps) :
       LET i == Run.day_indices[Run.di] IN
       /\ <<e, RunDate(i)>> \in Run.emp_working_today
       /\ Run.emp_days_assigned[e] < Run.emp_targets[e].max
       /\ i \notin bad_days(e)
       /\ Run.shuffled_locs[Run.li] \notin bad_locs(e)

\* C2: in every state of a smart-mode run no emitted assignment falls on a day
\* index in the worker's unavailable set or at a location in the worker's forbidden
\* set, Phase 3 (which asks is_available about location -1) included.
C2_NoForbiddenPlacement ==
  \A n \in DOMAIN Run.added :
    LET a == Run.added[n] IN
    /\ (a.date_str - Run.week_start) \notin bad_days(a.employee_id)
    /\ a.location_id \notin bad_locs(a.employee_id)

\* C2 witness: a worker barred from location 1 was placed by Phase 3 (no
\* preferences, and the location has staffing min 0, so neither Phase 1 nor
\* Phase 2 placed them) at another location on a date location 1 had space.
C2_Witness ==
  /\ Run.pc \in {"phase3", "commit", "done"}
  /\ \E n \in DOMAIN Run.added :
       LET a == Run.added[n] IN
       /\ 1 \in bad_locs(a.employee_id)
       /\ pref_map(a.employee_id) = <<>>
       /\ loc_min_max[a.location_id].min = 0
       /\ staff_count(Run, 1, a.date_str) < loc_min_max[1].max

\* C3: days_assigned[w] never exceeds max(0, target-days max of w), and once it has
\* reached the target-days max no step adds an assignment for w, also for a target
\* record with min > max.
C3_TargetMaxRespected ==
  /\ [](\A e \in DOMAIN Run.emp_days_assigned :
          Run.emp_days_assigned[e] <= Max0(emp_targets[e].max))
  /\ [][\A e \in DOMAIN Run.emp_days_assigned :
          Run.emp_days_assigned[e] >= emp_targets[e].max
            => RowsOf(runs'[1].added, e) = RowsOf(Run.added, e)]_vars

\* C3 witness: Phase 3 has gone through a day for a worker whose record has
\* min > max, who has reached the max and still needs days.
C3_Witness ==
  /\ Run.pc = "phase3" /\ Run.ei <= Len(Run.needy_employees) /\ Run.di > 1
  /\ LET e == Run.needy_employees[Run.ei] IN
     /\ emp_targets[e].min > emp_targets[e].max
     /\ Run.emp_days_assigned[e] = emp_targets[e].max
     /\ Run.emp_days_assigned[e] >= 1
     /\ Run.needed > 0

\* C4: in every state of a smart-mode run the occupancy of every (location, date)
\* is at most the location's staffing max, for every stored staffing record.
C4_OccupancyWithinMax ==
  Run.pc # "idle" =>
    \A l \in Range(locations), i \in DayIdx :
      staff_count(Run, l, RunDate(i)) <= loc_min_max[l].max

\* ------------------------------------------- claims on the stored shifts
\* The rows of a bag of Shift rows dated on one of the 6 dates from start_date.
DatedIn(store, start_date) ==
  LET keep == {s \in DOMAIN store : s.date_str - start_date \in DayIdx}
  IN [s \in keep |-> store[s]]

DatedOut(store, start_date) ==
  LET keep == {s \in DOMAIN store : s.date_str - start_date \notin DayIdx}
  IN [s \in keep |-> store[s]]

SlotRows(store, e, d) == {s \in DOMAIN store : s.employee_id = e /\ s.date_str = d}

\* C5: from an empty store, after any sequence of assign_shift, remove_shift,
\* clear_week_schedule and autofill_schedule requests served one after another, the
\* store holds at most one Shift per (worker, date), and after assign_shift(w, l, d)
\* exactly one Shift for (w, d), at l.
C5_OneShiftPerWorkerDate ==
  /\ \A s \in DOMAIN shifts :
       shifts[s] = 1 /\ SlotRows(shifts, s.employee_id, s.date_str) = {s}
  /\ ghost.last.op = "assign" =>
       /\ SlotRows(shifts, ghost.last.e, ghost.last.d)
            = {Shift(ghost.last.e, ghost.last.l, ghost.last.d)}
       /\ shifts[Shift(ghost.last.e, ghost.last.l, ghost.last.d)] = 1

\* C5 witness: assign_shift has moved a worker who had a Shift at another
\* location on that date.
C5_Witness ==
  /\ ghost.last.op = "assign"
  /\ \E s \in SlotRows(ghost.last.before, ghost.last.e, ghost.last.d) :
       s.location_id # ghost.last.l

\* C6: after a committed autofill_schedule for week W the Shifts dated inside W
\* are exactly the assignments the request generated, and every Shift dated
\* outside W is as it was.
C6_AutofillReplacesWeek ==
  Run.pc = "done" =>
    /\ DatedIn(shifts, Run.week_start) = SeqToBag(Run.added)
    /\ DatedOut(shifts, Run.week_start) = DatedOut(ghost.before[1], Run.week_start)

\* C6 witness: a committed run that generated assignments for a week that held
\* other Shifts on its last date, with Shifts outside the week in the store.
C6_Witness ==
  /\ Run.pc = "done" /\ Run.added # <<>>
  /\ \E s \in DOMAIN ghost.before[1] :
       /\ s.date_str = Run.week_start + 5
       /\ s \notin Range(Run.added)
  /\ DatedOut(ghost.before[1], Run.week_start) # EmptyBag

\* C7: after autofill_schedule in copy mode for week start S the Shifts dated
\* S..S+5 are exactly the Shifts dated S-7..S-2 before the request, each 7 days
\* later at the same location, whatever the constraints say, and the prior week's
\* Shifts are unchanged.
C7_CopyIsExactReplay ==
  (Run.pc = "done" /\ Run.mode = "copy") =>
    LET S == Run.week_start
        B == ghost.before[1]
        prior == {s \in DOMAIN B : S - 7 <= s.date_str /\ s.date_str <= S - 2}
        later(s) == Shift(s.employee_id, s.location_id, s.date_str + 7)
        earlier(t) == Shift(t.employee_id, t.location_id, t.date_str - 7)
    IN /\ DatedIn(shifts, S) = [t \in {later(s) : s \in prior} |-> B[earlier(t)]]
       /\ DatedIn(shifts, S - 7) = DatedIn(B, S - 7)

\* C7 witness: a committed copy whose prior week held a Shift of a worker at a
\* location the worker is barred from, into a week that held a different Shift.
C7_Witness ==
  /\ Run.pc = "done" /\ Run.mode = "copy"
  /\ \E s \in DOMAIN DatedIn(ghost.before[1], Run.week_start - 7) :
       s.location_id \in bad_locs(s.employee_id)
  /\ \E s \in DOMAIN DatedIn(ghost.before[1], Run.week_start) :
       s \notin DOMAIN shifts

\* C8: autofill_schedule with a mode other than 'copy' or 'smart' deletes the
\* Shifts dated inside the week, adds none, leaves the Shifts outside the week and
\* every other table unchanged, and does not fail.
C8_OtherModeOnlyClears ==
  Run.mode = "other" =>
    /\ Run.pc # "failed"
    /\ Run.pc = "done" =>
         /\ shifts = DatedOut(ghost.before[1], Run.week_start)
         /\ tables = ghost.tables0

\* C8 witness: a committed request of another mode for a week that held Shifts,
\* with Shifts in the week before it and elsewhere outside the week.
C8_Witness ==
  /\ Run.pc = "done" /\ Run.mode = "other"
  /\ DatedIn(ghost.before[1], Run.week_start) # EmptyBag
  /\ DatedIn(ghost.before[1], Run.week_start - 7) # EmptyBag

\* ------------------------------------------------ claims on concurrency
\* C9: a get_roster_state that runs beside an autofill_schedule of its week sees
\* all of the week's old Shifts or all of the new ones, never the week with the
\* old ones deleted and the new ones missing or partly inserted; and when the run
\* fails before its commit the week's old Shifts remain.
C9_ReplaceIsAtomic ==
  LET S == Run.week_start
      old == DatedIn(ghost.before[1], S)
  IN Run.pc # "idle" =>
       /\ (observed.at = ghost.nreq /\ observed.week = S) =>
            \/ observed.rows = old
            \/ Run.pc = "done" /\ observed.rows = SeqToBag(Run.added)
       /\ Run.pc = "failed" => DatedIn(shifts, S) = old

\* C9 witness: the week was read after the request began, and the run now stands
\* before its commit with the week's old Shifts deleted in its session and
\* different new ones added.
C9_Witness ==
  /\ Run.pc = "commit"
  /\ Run.deleted # EmptyBag /\ Run.added # <<>>
  /\ SeqToBag(Run.added) # DatedIn(ghost.before[1], Run.week_start)
  /\ observed.at = ghost.nreq /\ observed.week = Run.week_start

\* C10: two smart-mode runs for different weeks that execute concurrently each
\* emit, under every interleaving of their steps, the assignments the run emits
\* when executed alone with the same inputs and the same random outcomes.
C10_RunsIndependent ==
  \A k \in RunIds :
    runs[k].pc \in {"commit", "done"} =>
      runs[k].added = RunToEnd(ghost.start[k], ghost.tape[k]).added

\* C10 witness: run 1 has ended its phases while run 2 is in the middle of
\* Phase 2, and both have placed the same worker.
C10_Witness ==
  /\ runs[1].pc = "commit" /\ runs[2].pc = "phase2"
  /\ runs[1].week_start # runs[2].week_start
  /\ \E e \in Workers : RowsOf(runs[1].added, e) # {} /\ RowsOf(runs[2].added, e) # {}

\* ------------------------------------------ one worker with target {k, k}
\* Every outcome of random.shuffle(day_indices).
AllDayOrders == Orders(Rot(0))

\* autofill_schedule(mode = 'smart') as StartSmart, over every order of the days.
StartSmartAnyOrder(k, start_date) ==
  /\ runs[k].pc = "idle"
  /\ \E perm \in AllDayOrders :
       runs' = ApplyStep(k, IF BuildRaises
                            THEN [runs[k] EXCEPT !.pc = "failed", !.mode = "smart",
                                                 !.week_start = start_date]
                            ELSE SmartStart(runs[k], start_date, perm))
  /\ ghost' = Requested(k, "autofill")
  /\ UNCHANGED <<tables, shifts, observed>>

\* Worker 1 is the one active worker, with target-days {k, k} and no other record;
\* every location has staffing {min 0, max 1}.
InitFill ==
  /\ employees = [e \in Workers |-> [active |-> (e = 1), priority |-> 1]]
  /\ locations = AscSeq(Locs)
  /\ prefs_db = <<>>
  /\ targets_db \in {[e \in {1} |-> [min |-> k, max |-> k]] : k \in 0..WeekLen}
  /\ unavailable_db = {}
  /\ bad_locs_db = {}
  /\ loc_targets_db = [l \in Locs |-> [min |-> 0, max |-> 1]]
  /\ NoCoworkerRows
  /\ NoRequests

NextFill ==
  \/ StartSmartAnyOrder(1, Week0)
  \/ Phase1(1)
  \/ Phase2Shuffle(1)
  \/ Phase2(1)
  \/ Phase3(1)
  \/ Commit(1)

SpecFill == InitFill /\ [][NextFill]_vars

\* C11: with one active worker whose target-days are {k, k} (0 <= k <= 6), no
\* preferred, unavailable or forbidden records, and every location at staffing
\* {min 0, max 1}, a smart-mode run ends, under every order of the days, with
\* exactly k assignments for that worker, on k different dates.
C11_ExactlyKAssignments ==
  /\ Run.pc # "failed"
  /\ Run.pc \in {"commit", "done"} =>
       /\ Cardinality(RowsOf(Run.added, 1)) = targets_db[1].min
       /\ Cardinality({Run.added[n].date_str : n \in RowsOf(Run.added, 1)})
            = targets_db[1].min
       /\ Len(Run.added) = targets_db[1].min

\* C11 witness: the run of the spec's scenario (k = 3) has committed, under an
\* order of the days that does not start with Monday, and Phase 3 used the days
\* in that order.
C11_Witness ==
  /\ Run.pc = "done"
  /\ targets_db[1] = [min |-> 3, max |-> 3]
  /\ Run.day_indices[1] # 0
  /\ Len(Run.added) = 3
  /\ Run.added[1].date_str = RunDate(Run.day_indices[1])

\* ------------------------------------------------ the same run, twice
\* A second autofill_schedule(mode = 'smart') for the week of run 1, after run 1
\* has committed, on the same tables and with the random outcomes of run 1.
StartSmartAgain(k) ==
  /\ runs[1].pc = "done" /\ runs[k].pc = "idle"
  /\ ~BuildRaises
  /\ LET r0 == SmartStart(runs[k], runs[1].week_start, runs[1].day_indices)
     IN /\ runs' = ApplyStep(k, r0)
        /\ ghost' = [Requested(k, "autofill") EXCEPT
                       !.start[k] = r0, !.tape[k] = ghost.tape[1]]
  /\ UNCHANGED <<tables, shifts, observed>>

\* The dates of the Shifts stored before the first run: one outside the week, one in it.
TwiceDates == {0, Week0}

NextTwice ==
  \/ MayRequest /\ \E e \in Workers, l \in Locs, d \in TwiceDates : AssignShift(e, l, d)
  \/ StartSmartTape(1, Week0)
  \/ StartSmartAgain(2)
  \/ \E k \in RunIds :
       \/ Phase1(k)
       \/ Phase2ShuffleTape(k)
       \/ Phase2Tape(k)
       \/ Phase3(k)
       \/ Commit(k)

SpecTwice == InitPar /\ [][NextTwice]_vars

\* C12: a second smart-mode run on the same tables, for the same week and with the
\* same order of the days, the same shuffles of the locations and the same
\* tie-breaks as the first, emits the same assignments, hence the same occupancy
\* per (location, date) and the same day count per worker, and its commit leaves
\* the shift store as the first run left it.
C12_SameDrawsSameSchedule ==
  /\ runs[2].pc \in {"commit", "done"} =>
       /\ SeqToBag(runs[2].added) = SeqToBag(runs[1].added)
       /\ \A l \in Locs, i \in DayIdx :
            Cardinality({n \in DOMAIN runs[2].added :
                           /\ runs[2].added[n].location_id = l
                           /\ runs[2].added[n].date_str = Week0 + i})
              = staff_count(runs[1], l, Week0 + i)
       /\ \A e \in ActiveIds :
            Cardinality(RowsOf(runs[2].added, e)) = runs[1].emp_days_assigned[e]
  /\ runs[2].pc = "done" => shifts = ghost.before[2]

\* C12 witness: the second run has committed; the first had replaced a Shift of
\* the week by assignments of both workers, with a Shift outside the week stored.
C12_Witness ==
  /\ runs[2].pc = "done"
  /\ \A e \in Workers : RowsOf(runs[1].added, e) # {}
  /\ \E s \in DOMAIN DatedIn(ghost.before[1], Week0) : s \notin Range(runs[1].added)
  /\ DatedOut(shifts, Week0) # EmptyBag

\* ------------------------------------------------ claims on the defaults
\* The number of emitted assignments at location l on day index i of the week.
Occupancy(r, l, i) ==
  Cardinality({n \in DOMAIN r.added :
                 /\ r.added[n].location_id = l
                 /\ r.added[n].date_str = week_dates(r.week_start)[i]})

HasPrefRow(e) == \E n \in DOMAIN prefs_db : prefs_db[n].employee_id = e

\* C13: a smart-mode run does not fail on a missing record: a worker with no
\* target-days record is scheduled as {min 0, max 5} and never has more than 5
\* assignments, a location with no staffing record is staffed as {min 1, max 1}
\* and never has more than 1 worker on a date, and a worker with no preference,
\* unavailable-day or forbidden-location record has the empty set for it.
C13_DefaultsAreSafe ==
  /\ Run.pc # "failed"
  /\ Run.pc \in {"phase1", "phase2", "phase3", "commit", "done"} =>
       /\ \A e \in ActiveIds :
            /\ e \notin DOMAIN targets_db =>
                 /\ Run.emp_targets[e] = [min |-> 0, max |-> 5]
                 /\ Cardinality(RowsOf(Run.added, e)) <= 5
            /\ ~HasPrefRow(e) => Run.pref_map[e] = <<>>
            /\ (\A u \in unavailable_db : u[1] # e) => Run.bad_days[e] = {}
            /\ (\A b \in bad_locs_db : b[1] # e) => Run.bad_locs[e] = {}
       /\ \A l \in Range(locations) :
            l \notin DOMAIN loc_targets_db =>
              /\ Run.loc_min_max[l] = [min |-> 1, max |-> 1]
              /\ \A i \in DayIdx : Occupancy(Run, l, i) <= 1

\* C13 witness: a run has ended in which a worker with no record of any kind has
\* 5 assignments and a location with no staffing record has 1 worker on a date
\* on which another worker was placed elsewhere.
C13_Witness ==
  /\ Run.pc = "commit"
  /\ \E e \in ActiveIds :
       /\ e \notin DOMAIN targets_db /\ ~HasPrefRow(e)
       /\ \A u \in unavailable_db : u[1] # e
       /\ \A b \in bad_locs_db : b[1] # e
       /\ Cardinality(RowsOf(Run.added, e)) = 5
  /\ \E l \in Range(locations), i \in DayIdx :
       /\ l \notin DOMAIN loc_targets_db
       /\ Occupancy(Run, l, i) = 1
       /\ \E n \in DOMAIN Run.added :
            Run.added[n].date_str = RunDate(i) /\ Run.added[n].location_id # l

\* ------------------------------------------- inputs that load the phases
\* Workers who share a preferred location, locations that take two workers, that
\* require two, or whose min is above their max; or one worker and one location.
PhaseStaffChoices ==
  {[min |-> 0, max |-> 2], [min |-> 2, max |-> 2], [min |-> 1, max |-> 0]}

InitPhases ==
  /\ \/ /\ employees \in AllActive
        /\ locations = AscSeq(Locs)
        /\ prefs_db \in {<<PrefRow(1, 1), PrefRow(2, 1)>>,
                         <<PrefRow(1, 2), PrefRow(1, 1), PrefRow(2, 1)>>,
                         <<PrefRow(2, 1), PrefRow(2, 2)>>}
        /\ targets_db \in PartialFns(Workers, {[min |-> 1, max |-> 2]})
        /\ unavailable_db \in SUBSET {<<2, 0>>}
        /\ bad_locs_db \in SUBSET {<<1, 2>>}
        /\ loc_targets_db \in PartialFns(Locs, PhaseStaffChoices)
     \/ /\ employees = [e \in Workers |-> [active |-> (e = 1), priority |-> 1]]
        /\ locations = <<1>>
        /\ prefs_db = <<PrefRow(1, 1)>>
        /\ targets_db = EmptyDict
        /\ unavailable_db = {}
        /\ bad_locs_db = {}
        /\ loc_targets_db \in PartialFns({1}, {[min |-> 1, max |-> 1]})
  /\ NoCoworkerRows
  /\ NoRequests

SpecPhases == InitPhases /\ [][Next]_vars

\* ------------------------------------------------ claims on the phases
\* Eligibility as the claims word it, read from the tables and the emitted rows:
\* below the target-days max, weekday not unavailable, location not forbidden,
\* not working that date.
DaysOf(r, e) == Cardinality(RowsOf(r.added, e))

WorksOn(r, e, i) ==
  \E n \in RowsOf(r.added, e) : r.added[n].date_str = week_dates(r.week_start)[i]

FreeOn(r, e, i) ==
  /\ DaysOf(r, e) < emp_targets[e].max
  /\ i \notin bad_days(e)
  /\ ~WorksOn(r, e, i)

Eligible(r, e, l, i) == FreeOn(r, e, i) /\ l \notin bad_locs(e)

Prefers(e, l) == \E n \in DOMAIN prefs_db : prefs_db[n] = PrefRow(e, l)

BelowMin(r, e) == DaysOf(r, e) < emp_targets[e].min

LastRow(r) == r.added[Len(r.added)]

\* C14: whenever Phase 2 assigns a worker to a (location, date) slot, no worker
\* eligible for the slot at that moment has a smaller priority number; none of
\* the same priority prefers the location unless the chosen one does; and none
\* equal on both is below their target-days min unless the chosen one is.
C14_Phase2PickOrder ==
  [][(Run.pc = "phase2" /\ Len(runs'[1].added) = Len(Run.added) + 1) =>
       LET a == LastRow(runs'[1])
           c == a.employee_id
           l == a.location_id
           i == a.date_str - Run.week_start
       IN /\ Eligible(Run, c, l, i)
          /\ \A o \in ActiveIds :
               Eligible(Run, o, l, i) =>
                 /\ priority_of(c) <= priority_of(o)
                 /\ (priority_of(c) = priority_of(o) /\ Prefers(o, l)) => Prefers(c, l)
                 /\ (/\ priority_of(c) = priority_of(o)
                     /\ Prefers(c, l) = Prefers(o, l)
                     /\ BelowMin(Run, o)) => BelowMin(Run, c)]_vars

\* C14 witness: Phase 2 has just placed, at the slot it is filling, a worker who
\* does not prefer the location (so Phase 1 did not place them there) and is not
\* below their min, while a worker with a larger priority number who prefers the
\* location and is below their min is eligible for the slot.
C14_Witness ==
  /\ Run.pc = "phase2" /\ Run.li >= 1 /\ Run.added # <<>>
  /\ LET a == LastRow(Run)
         i == Run.day_indices[Run.di]
     IN /\ a.location_id = Run.shuffled_locs[Run.li]
        /\ a.date_str = RunDate(i)
        /\ ~Prefers(a.employee_id, a.location_id)
        /\ DaysOf(Run, a.employee_id) > emp_targets[a.employee_id].min
        /\ \E o \in ActiveIds :
             /\ priority_of(o) > priority_of(a.employee_id)
             /\ Prefers(o, a.location_id)
             /\ BelowMin(Run, o)
             /\ Eligible(Run, o, a.location_id, i)

\* Phase 1 is running, or has just ended: every emitted row is a Phase 1 row.
InPhase1 ==
  \/ Run.pc = "phase1"
  \/ Run.pc = "phase2" /\ Run.di = 1 /\ Run.li = 0

\* C15: Phase 1 adds at most one assignment per (day, location) pair, for every
\* staffing max of the location.
C15_Phase1OnePerSlot ==
  InPhase1 => \A l \in Range(locations), i \in DayIdx : Occupancy(Run, l, i) <= 1

\* C15 as amended: Phase 1 adds at most max(staffing max, 0) assignments per
\* (day, location) pair, each of a worker who listed the location as a preference,
\* and at most one per worker and date.
C15_Phase1WithinMax ==
  InPhase1 =>
    /\ \A l \in Range(locations), i \in DayIdx :
         Occupancy(Run, l, i) <= Max0(loc_min_max[l].max)
    /\ \A n \in DOMAIN Run.added :
         /\ Prefers(Run.added[n].employee_id, Run.added[n].location_id)
         /\ \A m \in DOMAIN Run.added :
              (/\ Run.added[m].employee_id = Run.added[n].employee_id
               /\ Run.added[m].date_str = Run.added[n].date_str) => m = n

\* C15 witness: Phase 1 has placed two workers at a location with staffing max 2
\* on one date.
C15_Witness ==
  /\ Run.pc = "phase1"
  /\ \E l \in Range(locations), i \in DayIdx :
       loc_min_max[l].max = 2 /\ Occupancy(Run, l, i) = 2

\* Phase 1 has just ended: Phase 2 has not yet shuffled the locations of its first day.
Phase1Ended == Run.pc = "phase2" /\ Run.di = 1 /\ Run.li = 0

\* The scenario of one location with staffing {min 1, max 1} and one worker who
\* prefers it and has no other record.
OneFanScenario ==
  /\ Cardinality(ActiveIds) = 1 /\ Len(locations) = 1
  /\ loc_min_max[locations[1]] = [min |-> 1, max |-> 1]
  /\ \A e \in ActiveIds : Prefers(e, locations[1])
  /\ targets_db = EmptyDict /\ unavailable_db = {} /\ bad_locs_db = {}

\* C16: at the end of Phase 1 every (location, date) whose location has staffing
\* max >= 1 and for which some worker who prefers the location is still eligible
\* has occupancy >= 1; and in the scenario of one location {min 1, max 1} and one
\* worker preferring it, Phase 1 places that worker there and the location's
\* occupancy on each such date is 1 at the end of the run.
C16_AnchorCoversPreferred ==
  /\ Phase1Ended =>
       \A l \in Range(locations), i \in DayIdx :
         (/\ loc_min_max[l].max >= 1
          /\ \E e \in ActiveIds : Prefers(e, l) /\ Eligible(Run, e, l, i))
           => Occupancy(Run, l, i) >= 1
  /\ OneFanScenario =>
       /\ Phase1Ended =>
            /\ Run.added # <<>>
            /\ \A n \in DOMAIN Run.added :
                 /\ Run.added[n].employee_id \in ActiveIds
                 /\ Run.added[n].location_id = locations[1]
       /\ Run.pc \in {"commit", "done"} =>
            /\ Run.added # <<>>
            /\ \A n \in DOMAIN Run.added :
                 Occupancy(Run, locations[1], Run.added[n].date_str - Run.week_start) = 1

\* C16 witness: at the end of Phase 1 a worker who prefers a location with
\* staffing max >= 1 is still eligible for it on a date, and the location is
\* occupied on that date by another worker.
C16_Witness ==
  /\ Phase1Ended
  /\ \E l \in Range(locations), i \in DayIdx, e \in ActiveIds :
       /\ loc_min_max[l].max >= 1
       /\ Prefers(e, l) /\ Eligible(Run, e, l, i)
       /\ Occupancy(Run, l, i) >= 1

\* C17: every Phase 1 placement puts the worker at a location the worker listed
\* as preferred, and when Phase 1 places a worker at (location, date) no worker
\* with a strictly smaller priority number who also prefers that location is
\* eligible for that (location, date) at that moment.
C17_AnchorByPriority ==
  [][(Run.pc = "phase1" /\ Len(runs'[1].added) = Len(Run.added) + 1) =>
       LET a == LastRow(runs'[1])
           i == a.date_str - Run.week_start
       IN /\ Prefers(a.employee_id, a.location_id)
          /\ \A h \in ActiveIds :
               (/\ priority_of(h) < priority_of(a.employee_id)
                /\ Prefers(h, a.location_id))
                 => ~Eligible(Run, h, a.location_id, i)]_vars

\* C17 witness: Phase 1 has just placed a worker at a location where a worker
\* with a smaller priority number, who prefers it too, was placed before them on
\* the same date.
C17_Witness ==
  /\ Run.pc = "phase1" /\ Len(Run.added) >= 2
  /\ LET a == LastRow(Run) IN
     \E n \in DOMAIN Run.added :
       /\ n < Len(Run.added)
       /\ Run.added[n].location_id = a.location_id
       /\ Run.added[n].date_str = a.date_str
       /\ priority_of(Run.added[n].employee_id) < priority_of(a.employee_id)

\* The workers the location is not forbidden for.
Admitted(l) == {e \in ActiveIds : l \notin bad_locs(e)}

\* C18: from the end of Phase 2 to the end of the run, every (location, date)
\* whose occupancy is below the location's staffing min has no eligible worker
\* left, and the run does not fail over it; a location with staffing {min 2,
\* max 2} that only one worker may work at has occupancy 1 on the dates that
\* worker is placed there, and occupancy 0 on the others.
C18_UnderstaffedOnlyWhenNobodyLeft ==
  /\ Run.pc # "failed"
  /\ Run.pc \in {"phase3", "commit", "done"} =>
       \A l \in Range(locations), i \in DayIdx :
         /\ Occupancy(Run, l, i) < loc_min_max[l].min =>
              \A e \in ActiveIds : ~Eligible(Run, e, l, i)
         /\ (loc_min_max[l] = [min |-> 2, max |-> 2] /\ Cardinality(Admitted(l)) = 1) =>
              Occupancy(Run, l, i) =
                (IF \E n \in DOMAIN Run.added :
                       /\ Run.added[n] = Shift(CHOOSE e \in Admitted(l) : TRUE,
                                               l, RunDate(i))
                 THEN 1 ELSE 0)

\* C18 witness: a run has ended with a location of staffing {min 2, max 2}, which
\* only one worker may work at, holding that worker alone on one date and nobody
\* on another.
C18_Witness ==
  /\ Run.pc = "commit"
  /\ \E l \in Range(locations), i, j \in DayIdx :
       /\ loc_min_max[l] = [min |-> 2, max |-> 2]
       /\ Cardinality(Admitted(l)) = 1
       /\ Occupancy(Run, l, i) = 1
       /\ Occupancy(Run, l, j) = 0

\* The locations that are below their staffing max on day index i of the week
\* and are not forbidden for worker e.
OpenFor(r, e, i) ==
  {l \in Range(locations) :
     l \notin bad_locs(e) /\ Occupancy(r, l, i) < loc_min_max[l].max}

\* Phase 3 never stands before a placement of a worker on a date on which one of
\* the worker's preferred locations is open for them: Phase 1 has placed the
\* worker on every such date.
Phase3PreferredNeverOpen ==
  (/\ Run.pc = "phase3" /\ Run.ei <= Len(Run.needy_employees)
   /\ Run.di <= WeekLen /\ Run.needed > 0) =>
    LET emp == Run.needy_employees[Run.ei]
        i == Run.day_indices[Run.di]
    IN (FreeOn(Run, emp, i) /\ OpenFor(Run, emp, i) # {})
         => \A l \in OpenFor(Run, emp, i) : ~Prefers(emp, l)

\* C20: at the end of a smart-mode run every worker whose day count is below
\* their target-days min is stuck: on no date of the week is the worker below
\* their target-days max, not unavailable and not working while some location
\* that is not forbidden for them is below its staffing max.
C20_ShortWorkersAreStuck ==
  Run.pc \in {"commit", "done"} =>
    \A w \in ActiveIds :
      BelowMin(Run, w) =>
        \A i \in DayIdx : ~(FreeOn(Run, w, i) /\ OpenFor(Run, w, i) # {})

\* C20 witness: a run has ended with a worker below their min who is free on a
\* date (below their max, not unavailable, not working) on which every location
\* they may work at is full, although each has a staffing max of at least 1.
C20_Witness ==
  /\ Run.pc = "commit"
  /\ \A l \in Range(locations) : loc_min_max[l].max >= 1
  /\ \E w \in ActiveIds, i \in DayIdx :
       /\ BelowMin(Run, w)
       /\ FreeOn(Run, w, i)
       /\ \E l \in Range(locations) : l \notin bad_locs(w)

\* ------------------------------------------- inputs that use all phases
\* Worker 1 may prefer location 1 and wants 1 to 3 days, worker 2 wants 5; a
\* location takes one worker, and may ask for more workers than there are.
LoadStaffChoices == {[min |-> 0, max |-> 1], [min |-> 3, max |-> 1]}

InitLoad ==
  /\ employees \in AllActive
  /\ locations = AscSeq(Locs)
  /\ prefs_db \in {<<>>, <<PrefRow(1, 1)>>}
  /\ targets_db = [e \in {1, 2} |-> IF e = 1 THEN [min |-> 1, max |-> 3]
                                    ELSE [min |-> 5, max |-> 5]]
  /\ unavailable_db \in SUBSET {<<1, 0>>}
  /\ bad_locs_db = {}
  /\ loc_targets_db \in PartialFns(Locs, LoadStaffChoices)
  /\ NoCoworkerRows
  /\ NoRequests

SpecLoad == InitLoad /\ [][Next]_vars

\* The order of the stages of a run.
PhaseRank(pc) ==
  CASE pc = "idle" -> 0
    [] pc = "phase1" -> 1
    [] pc = "phase2" -> 2
    [] pc = "phase3" -> 3
    [] pc = "commit" -> 4
    [] OTHER -> 5

\* C21: during a smart-mode run the assignment list only grows at its end, the
\* day counts and the occupancy counts never decrease, the phases follow each
\* other in order and a row is added without leaving the phase, so that every
\* Phase 1 row precedes every Phase 2 row, which precedes every Phase 3 row.
C21_RunOnlyAdds ==
  [][Run.pc \in {"phase1", "phase2", "phase3"} =>
       LET new == runs'[1] IN
       /\ Len(new.added) >= Len(Run.added)
       /\ Len(new.added) <= Len(Run.added) + 1
       /\ SubSeq(new.added, 1, Len(Run.added)) = Run.added
       /\ \A e \in DOMAIN Run.emp_days_assigned :
            new.emp_days_assigned[e] >= Run.emp_days_assigned[e]
       /\ \A key \in DOMAIN Run.loc_day_counts :
            /\ key \in DOMAIN new.loc_day_counts
            /\ new.loc_day_counts[key] >= Run.loc_day_counts[key]
       /\ Run.emp_working_today \subseteq new.emp_working_today
       /\ PhaseRank(new.pc) >= PhaseRank(Run.pc)
       /\ new.added # Run.added => new.pc = Run.pc]_vars

\* C21 witness: a run has ended whose list holds, in this order, a row of a
\* worker at a location they prefer (Phase 1), a row of a worker without
\* preferences at a location with staffing min >= 1 (Phase 2) and a row of that
\* worker at a location with staffing min 0 (which only Phase 3 fills).
C21_Witness ==
  /\ Run.pc = "commit"
  /\ \E n1, n2, n3 \in DOMAIN Run.added :
       /\ n1 < n2 /\ n2 < n3
       /\ Prefers(Run.added[n1].employee_id, Run.added[n1].location_id)
       /\ ~HasPrefRow(Run.added[n2].employee_id)
       /\ loc_min_max[Run.added[n2].location_id].min >= 1
       /\ Run.added[n3].employee_id = Run.added[n2].employee_id
       /\ loc_min_max[Run.added[n3].location_id].min = 0

\* The request handler keeps executing until it returns: every step that can be
\* taken is taken eventually.
SpecLive == InitLoad /\ [][Next]_vars /\ WF_vars(Next)

\* C22: every smart-mode run reaches its commit, also with a staffing min above
\* the number of workers or above the max: an iteration of the Phase 2 while
\* loop assigns only while the slot's count is below both the staffing min and
\* the number of workers, and the loop positions of Phases 1 and 3 stay within
\* workers x days.
C22_RunTerminates ==
  /\ [](Run.pc = "phase2" /\ Run.li >= 1 /\ Phase2Assigns(Run) =>
          /\ Run.current < loc_min_max[Run.shuffled_locs[Run.li]].min
          /\ Run.current < Cardinality(ActiveIds))
  /\ [](Run.pc \in {"phase1", "phase3"} =>
          /\ Run.ei <= Cardinality(ActiveIds) + 1
          /\ Run.di <= WeekLen + 1)
  /\ (Run.pc = "phase1") ~> (Run.pc = "done")

\* C22 witness: Phase 2 has left a slot whose staffing min is above the number of
\* workers and above its max, with every worker placed there, and gone on.
C22_Witness ==
  /\ Run.pc \in {"phase3", "commit", "done"}
  /\ \E l \in Range(locations), i \in DayIdx :
       /\ loc_min_max[l].min > Cardinality(ActiveIds)
       /\ loc_min_max[l].min > loc_min_max[l].max
       /\ Occupancy(Run, l, i) = Cardinality(ActiveIds)

\* C23: in every state of a smart-mode run the counters agree with the rows
\* emitted so far: emp_days_assigned[w] is the number of rows of w, the count of
\* (l, d) is the number of rows at (l, d), and a worker is marked as working on d
\* exactly when a row for (w, d) exists.
C23_CountersMatchRows ==
  Run.pc \in {"phase1", "phase2", "phase3", "commit", "done"} =>
    /\ \A e \in ActiveIds : Run.emp_days_assigned[e] = DaysOf(Run, e)
    /\ \A l \in Range(locations), i \in DayIdx :
         staff_count(Run, l, RunDate(i)) = Occupancy(Run, l, i)
    /\ \A key \in DOMAIN Run.loc_day_counts :
         key[1] \in Range(locations) /\ key[2] - Run.week_start \in DayIdx
    /\ Run.emp_working_today
         = {<<Run.added[n].employee_id, Run.added[n].date_str>> : n \in DOMAIN Run.added}

\* C23 witness: Phase 3 is running with a worker holding rows of two phases and a
\* (location, date) holding two workers.
C23_Witness ==
  /\ Run.pc = "phase3"
  /\ \E e \in ActiveIds : DaysOf(Run, e) >= 4
  /\ \E l \in Range(locations), i \in DayIdx : Occupancy(Run, l, i) = 2

\* C24: a smart-mode run never fails on the stored records, also when a
\* preference, unavailable-day, forbidden-location or target-days record belongs
\* to a worker who is not active: the run goes on to its commit and no worker
\* outside the active set receives an assignment.
C24_InactiveRecordsIgnored ==
  (Run.mode = "smart" /\ Run.pc # "idle") =>
    /\ Run.pc # "failed"
    /\ \A n \in DOMAIN Run.added : Run.added[n].employee_id \in ActiveIds

\* ------------------------------------ requests executing at the same time
\* assign_shift up to session.commit(): the SELECT has run, the row it found is
\* marked for deletion and the new Shift is added, all in the request's session.
AssignStart(r, existing, e, l, d) ==
  [r EXCEPT !.pc = "commit", !.mode = "assign", !.week_start = d,
            !.deleted = existing, !.added = <<Shift(e, l, d)>>]

StartAssign(k, e, l, d) ==
  /\ runs[k].pc = "idle"
  /\ \E existing \in first_existing(shifts, e, d) :
       runs' = ApplyStep(k, AssignStart(runs[k], existing, e, l, d))
  /\ ghost' = Requested(k, "assign")
  /\ UNCHANGED <<tables, shifts, observed>>

RaceDates == {Week0, Week0 + 1}

InitRace ==
  /\ employees \in [Workers -> [active : {TRUE}, priority : {1}]]
  /\ locations = AscSeq(Locs)
  /\ prefs_db = <<PrefRow(1, 2)>>
  /\ targets_db = [e \in {1, 2} |-> IF e = 1 THEN [min |-> 1, max |-> 2]
                                    ELSE [min |-> 2, max |-> 2]]
  /\ unavailable_db = {<<1, 0>>}
  /\ bad_locs_db = {}
  /\ loc_targets_db = [l \in {2} |-> [min |-> 0, max |-> 1]]
  /\ NoCoworkerRows
  /\ NoRequests

\* Two requests in flight, each in a session of its own, both on the same week;
\* their steps interleave freely.
NextRace ==
  \E k \in RunIds :
    \/ \E e \in Workers, l \in Locs, d \in RaceDates : StartAssign(k, e, l, d)
    \/ StartSmartTape(k, Week0)
    \/ Phase1(k)
    \/ Phase2ShuffleTape(k)
    \/ Phase2Tape(k)
    \/ Phase3(k)
    \/ Commit(k)

SpecRace == InitRace /\ [][NextRace]_vars

\* C25: under every interleaving of two requests that write the same (worker,
\* date), two assign_shift requests or two autofill_schedule requests for the
\* same week, the committed store holds at most one Shift per (worker, date).
C25_OneShiftPerWorkerDate ==
  \A s, t \in DOMAIN shifts :
    (s.employee_id = t.employee_id /\ s.date_str = t.date_str) =>
      s = t /\ shifts[s] = 1

\* ------------------------------------------------- the employee's records
\* History of a request on the tables: what it was given and what it found.
Administered(op, id, t) ==
  [ghost EXCEPT !.nreq = @ + 1, !.tables0 = tables,
                !.last = [op |-> op, e |-> id, l |-> t, d |-> 0, before |-> shifts]]

\* add_emp_constraint: the pair is stored unless it is reflexive or already there
AddEmpConstraint(e, t) ==
  /\ emp_constraints_db' = IF e # t /\ <<e, t>> \notin emp_constraints_db
                           THEN emp_constraints_db \cup {<<e, t>>}
                           ELSE emp_constraints_db
  /\ ghost' = Administered("add_emp_constraint", e, t)
  /\ UNCHANGED <<employees, locations, prefs_db, targets_db, unavailable_db,
                 bad_locs_db, loc_targets_db, coworker_prefs_db, shifts, runs,
                 observed>>

\* add_emp_preference: the pair is stored unless it is reflexive or already there
AddEmpPreference(e, t) ==
  /\ coworker_prefs_db' = IF e # t /\ <<e, t>> \notin coworker_prefs_db
                          THEN coworker_prefs_db \cup {<<e, t>>}
                          ELSE coworker_prefs_db
  /\ ghost' = Administered("add_emp_preference", e, t)
  /\ UNCHANGED <<employees, locations, prefs_db, targets_db, unavailable_db,
                 bad_locs_db, loc_targets_db, emp_constraints_db, shifts, runs,
                 observed>>

\* The EmployeeCoworkerPreference rows the DELETE of delete_employee leaves: it
\* selects on employee_id only.
coworker_prefs_kept(rows, id) == {p \in rows : p[1] # id}

\* The rows that still point at the employee when delete(Employee) executes.
StillReferenced(id) ==
  {p \in coworker_prefs_kept(coworker_prefs_db, id) : p[2] = id}

\* delete_employee: the eight DELETE statements, then session.commit(). The
\* columns are declared with foreign_key = "employee.id": a server that enforces
\* the key rejects delete(Employee) while a row points at the employee, the
\* exception leaves the with-block and nothing is committed; a server that does
\* not enforce it commits.
DeleteEmployee(id) ==
  /\ id \in DOMAIN employees
  /\ \E enforced \in BOOLEAN :
       IF enforced /\ StillReferenced(id) # {}
       THEN /\ ghost' = Administered("delete_employee_failed", id, 0)
            /\ UNCHANGED <<tables, shifts>>
       ELSE /\ shifts' = [s \in {x \in DOMAIN shifts : x.employee_id # id}
                            |-> shifts[s]]
            /\ bad_locs_db' = {b \in bad_locs_db : b[1] # id}
            /\ emp_constraints_db' =
                 {c \in emp_constraints_db : ~(c[1] = id \/ c[2] = id)}
            /\ prefs_db' = SelectSeq(prefs_db, LAMBDA p : p.employee_id # id)
            /\ coworker_prefs_db' = coworker_prefs_kept(coworker_prefs_db, id)
            /\ unavailable_db' = {u \in unavailable_db : u[1] # id}
            /\ targets_db' = [e \in DOMAIN targets_db \ {id} |-> targets_db[e]]
            /\ employees' = [e \in DOMAIN employees \ {id} |-> employees[e]]
            /\ ghost' = Administered("delete_employee", id, 0)
            /\ UNCHANGED <<locations, loc_targets_db>>
  /\ UNCHANGED <<runs, observed>>

InitAdmin ==
  /\ employees = [e \in Workers |-> [active |-> TRUE, priority |-> 1]]
  /\ locations = AscSeq(Locs)
  /\ prefs_db = <<PrefRow(1, 2), PrefRow(NumWorkers, 1)>>
  /\ targets_db = [e \in {1} |-> [min |-> 1, max |-> 2]]
  /\ unavailable_db = {<<e, 0>> : e \in Workers}
  /\ bad_locs_db = {<<e, 1>> : e \in Workers}
  /\ loc_targets_db = [l \in {2} |-> [min |-> 0, max |-> 1]]
  /\ NoCoworkerRows
  /\ NoRequests

AdminDates == {Week0}

\* Requests of the admin pages, executed one after another.
NextAdmin ==
  \/ MayRequest /\ \E e, t \in DOMAIN employees : AddEmpConstraint(e, t)
  \/ MayRequest /\ \E e, t \in DOMAIN employees : AddEmpPreference(e, t)
  \/ MayRequest /\ \E e \in DOMAIN employees, l \in Locs, d \in AdminDates :
                     AssignShift(e, l, d)
  \/ MayRequest /\ \E id \in Workers : DeleteEmployee(id)

SpecAdmin == InitAdmin /\ [][NextAdmin]_vars

\* The rows of the tables that carry the id of employee id.
RefersTo(id) ==
  {s \in DOMAIN shifts : s.employee_id = id}
    \cup {b \in bad_locs_db : b[1] = id}
    \cup {prefs_db[n] : n \in {m \in DOMAIN prefs_db : prefs_db[m].employee_id = id}}
    \cup {u \in unavailable_db : u[1] = id}
    \cup {e \in DOMAIN targets_db : e = id}
    \cup {c \in emp_constraints_db : c[1] = id \/ c[2] = id}
    \cup {p \in coworker_prefs_db : p[1] = id \/ p[2] = id}

\* C26: in the state delete_employee(id) commits, the employee is gone and no
\* Shift, LocationConstraint, LocationPreference, EmployeeUnavailableDay or
\* EmployeeTargetDays row has employee_id = id and no EmployeeConstraint or
\* EmployeeCoworkerPreference row has employee_id = id or target_employee_id =
\* id; the other employees and the locations are as they were.
C26_NoReferenceAfterDelete ==
  ghost.last.op = "delete_employee" =>
    LET id == ghost.last.e
        was == ghost.tables0
    IN /\ id \notin DOMAIN employees
       /\ RefersTo(id) = {}
       /\ \A e \in DOMAIN was[1] \ {id} :
            e \in DOMAIN employees /\ employees[e] = was[1][e]
       /\ locations = was[2]
       /\ loc_targets_db = was[7]

====
